---- MODULE Spec2Model ----
(***************************************************************************)
(* Model of src/src/AuthProvider.jsx: the AuthProvider component, its      *)
(* request interceptor and its four operations (initializeAuth, login,     *)
(* register, logout).                                                      *)
(*                                                                         *)
(* An async function runs synchronously up to its await and again from the *)
(* settled request to its end, so each operation is two steps: the segment *)
(* that sends the request, and the segment that handles the outcome.       *)
(* Several operations may be waiting at once; their second segments run in *)
(* any order.  login, register and logout are reached through the context  *)
(* value, so they are called once the component's effects have run; the    *)
(* provider stays mounted (it wraps the application).                      *)
(***************************************************************************)
EXTENDS Integers, Sequences, FiniteSets, TLC

VARIABLES
    user,       \* useState(null), line 15
    token,      \* useState(localStorage.getItem('token')), line 16
    loading,    \* useState(true), line 17
    storage,    \* localStorage['token']
    installed,  \* whether the request interceptor is registered on axios
    ops,        \* per slot: the operation waiting for its request, or idle
    last,       \* what the last step did: requests sent, navigations, return value
    sinceLogout \* history: which calls were waiting when a logout cleared the session,
                \* and whether a call started after that logout has succeeded since

vars == <<user, token, loading, storage, installed, ops, last, sinceLogout>>

-----------------------------------------------------------------------------
(* Bounds *)

\* number of login/register/logout calls that may be waiting at once
MaxCalls == 2

-----------------------------------------------------------------------------
(* JavaScript values *)

Undefined == [t |-> "undefined"]
Null == [t |-> "null"]
Str(s) == [t |-> "string", v |-> s]
Obj(f) == [t |-> "object", f |-> f]

\* ToBoolean
Truthy(v) ==
    CASE v.t = "undefined" -> FALSE
      [] v.t = "null" -> FALSE
      [] v.t = "string" -> v.v # ""
      [] OTHER -> TRUE

\* a || b
Or(a, b) == IF Truthy(a) THEN a ELSE b

\* o.k throws a TypeError on undefined and null
Nullish(v) == v.t \in {"undefined", "null"}

\* o.k where o is not nullish
Get(o, k) == IF o.t = "object" /\ k \in DOMAIN o.f THEN o.f[k] ELSE Undefined

\* o?.k
OptGet(o, k) == IF Nullish(o) THEN Undefined ELSE Get(o, k)

-----------------------------------------------------------------------------
(* The backend, as seen through axios: what a request can settle with *)

T0 == Str("t0")     \* a token persisted by an earlier session
T1 == Str("t1")     \* a token issued by login/register
T2 == Str("t2")     \* a token issued by the current-user endpoint

UAdmin == Obj("role" :> Str("admin"))
UCustomer == Obj("role" :> Str("customer"))
UCustomerTok == Obj(("role" :> Str("customer")) @@ ("access_token" :> T2))

Resolved(data) == [ok |-> TRUE, val |-> Obj("data" :> data)]
Rejected(error) == [ok |-> FALSE, val |-> error]
Pending == [t |-> "pending"]

\* an error with no response (network failure)
NetworkError == Obj("message" :> Str("Network Error"))
\* an error carrying the backend's response body
HttpError(data) ==
    Obj(("message" :> Str("Request failed")) @@ ("response" :> Obj("data" :> data)))
\* what a property access on undefined/null throws
TypeError == Obj("message" :> Str("TypeError"))

ErrorPayloads ==
    { Obj("error" :> Str("bad creds")),
      Obj("message" :> Str("try later")),
      Obj(("error" :> Str("bad creds")) @@ ("message" :> Str("try later"))),
      Obj(("error" :> Str("")) @@ ("message" :> Str("try later"))),
      Obj(<<>>),
      Str("<html>") }

Rejections == {Rejected(NetworkError)} \cup {Rejected(HttpError(p)) : p \in ErrorPayloads}

\* bodies of POST /auth/login/ and POST /auth/register/
SubmitData ==
    { Null, Obj(<<>>), Obj("access_token" :> T1) }
    \cup { Obj("user" :> u) : u \in {UAdmin, UCustomer} }
    \cup { Obj(("user" :> u) @@ ("access_token" :> T1)) : u \in {UAdmin, UCustomer} }

SubmitOutcomes == {Resolved(d) : d \in SubmitData} \cup Rejections

\* bodies of GET /auth/me/: a bare user, {user}, or {user, access_token}
MeUsers == {UAdmin, UCustomer, UCustomerTok}
MeData ==
    { Null } \cup MeUsers
    \cup { Obj("user" :> u) : u \in MeUsers }
    \cup { Obj(("user" :> u) @@ ("access_token" :> T2)) : u \in {UAdmin, UCustomer} }

MeOutcomes ==
    {Resolved(d) : d \in MeData}
    \cup {Rejected(NetworkError), Rejected(HttpError(Obj("error" :> Str("bad token"))))}

LogoutOutcomes ==
    {Resolved(Obj(<<>>)), Rejected(NetworkError),
     Rejected(HttpError(Obj("error" :> Str("bad token"))))}

-----------------------------------------------------------------------------
(* Constants of the source *)

API == "/api"
AdminRoute == "/dashboard/admin"
CustomerRoute == "/dashboard/customer"
HomeRoute == "/"

-----------------------------------------------------------------------------
(* The request interceptor, lines 22-31 *)

\* the header set to the bare token, without the Bearer scheme
InterceptorBareToken(config, stor) ==
    LET storedToken == stor
    IN  IF Truthy(storedToken)
        THEN [config EXCEPT !.Authorization = storedToken]
        ELSE config

Interceptor(config, stor) ==
    LET storedToken == stor
    IN  IF Truthy(storedToken)
        THEN [config EXCEPT !.Authorization = Str("Bearer " \o storedToken.v)]
        ELSE config

\* axios runs the registered request interceptors on the config, then sends it
Request(config, inst, stor) == IF inst THEN Interceptor(config, stor) ELSE config

Config(method, url, data) ==
    [method |-> method, url |-> url, data |-> data, Authorization |-> Undefined]

-----------------------------------------------------------------------------
(* The session the handlers read and write *)

Session(u, t, l, s) == [user |-> u, token |-> t, loading |-> l, storage |-> s]

Current == Session(user, token, loading, storage)

Success == [success |-> TRUE, error |-> Undefined]
Failure(m) == [success |-> FALSE, error |-> m]

\* what a segment of a handler leaves behind: the session, the navigate() calls,
\* the value returned, and the exception on its way out (if any)
Effect(st, navs, result) ==
    [thrown |-> FALSE, error |-> Undefined, st |-> st, navs |-> navs, result |-> result]
Thrown(st, error) ==
    [thrown |-> TRUE, error |-> error, st |-> st, navs |-> <<>>, result |-> Undefined]

\* a function without the finally block
FinallyMissing(e) == e

\* finally { setLoading(false) }: runs on every way out of try/catch
FinallyNotLoading(e) == [e EXCEPT !.st.loading = FALSE]

-----------------------------------------------------------------------------
(* initializeAuth, lines 40-67 *)

\* the try block keeping the persisted token whatever the response carries
InitializeAuthTryIgnoresRefresh(st, outcome, storedToken) ==
    IF ~outcome.ok THEN Thrown(st, outcome.val)
    ELSE
    LET response == outcome.val
        data == Get(response, "data")
    IN  IF Nullish(data) THEN Thrown(st, TypeError)
        ELSE
        LET userData == Or(Get(data, "user"), data)
            st1 == [st EXCEPT !.user = userData]
            realToken == storedToken
        IN  IF Truthy(realToken)
            THEN Effect([st1 EXCEPT !.storage = realToken, !.token = realToken],
                        <<>>, Undefined)
            ELSE Effect(st1, <<>>, Undefined)

\* lines 50-58, from the settled GET on
InitializeAuthTry(st, outcome, storedToken) ==
    IF ~outcome.ok THEN Thrown(st, outcome.val)
    ELSE
    LET response == outcome.val
        data == Get(response, "data")
    IN  IF Nullish(data) THEN Thrown(st, TypeError)
        ELSE
        LET userData == Or(Get(data, "user"), data)
            st1 == [st EXCEPT !.user = userData]
            realToken == Or(Get(userData, "access_token"), storedToken)
        IN  IF Truthy(realToken)
            THEN Effect([st1 EXCEPT !.storage = realToken, !.token = realToken],
                        <<>>, Undefined)
            ELSE Effect(st1, <<>>, Undefined)

\* the catch block without localStorage.removeItem
InitializeAuthCatchKeepsStorage(st, error) ==
    Effect([st EXCEPT !.user = Null, !.token = Null], <<>>, Undefined)

\* lines 59-63
InitializeAuthCatch(st, error) ==
    Effect([st EXCEPT !.user = Null, !.token = Null, !.storage = Null], <<>>, Undefined)

\* lines 50-66
InitializeAuthSettled(st, outcome, storedToken) ==
    LET t == InitializeAuthTry(st, outcome, storedToken)
    IN  FinallyNotLoading(IF t.thrown THEN InitializeAuthCatch(t.st, t.error) ELSE t)

\* the early return without setLoading(false), and with no finally to make up for it
InitializeAuthNoTokenStaysLoading(st) ==
    Effect([st EXCEPT !.user = Null, !.loading = TRUE], <<>>, Undefined)

\* lines 41-48, when nothing is persisted: no request, the function ends here
InitializeAuthNoToken(st) ==
    FinallyNotLoading(Effect([st EXCEPT !.user = Null, !.loading = FALSE], <<>>, Undefined))

-----------------------------------------------------------------------------
(* login, lines 72-106 *)

\* the try block without localStorage.setItem: the token is kept in memory only
LoginTryTokenNotPersisted(st, outcome) ==
    IF ~outcome.ok THEN Thrown(st, outcome.val)
    ELSE
    LET response == outcome.val
        data == Get(response, "data")
    IN  IF Nullish(data) THEN Thrown(st, TypeError)
        ELSE
        LET userData == Get(data, "user")
            access_token == Get(data, "access_token")
            st1 == IF Truthy(access_token)
                   THEN [st EXCEPT !.token = access_token]
                   ELSE st
            st2 == [st1 EXCEPT !.user = userData]
        IN  IF Nullish(userData) THEN Thrown(st2, TypeError)
            ELSE IF Get(userData, "role") = Str("admin")
                 THEN Effect(st2, <<AdminRoute>>, Success)
                 ELSE Effect(st2, <<CustomerRoute>>, Success)

\* the try block with an else that drops the token when the response has none
LoginTryDropsTokenWhenMissing(st, outcome) ==
    IF ~outcome.ok THEN Thrown(st, outcome.val)
    ELSE
    LET response == outcome.val
        data == Get(response, "data")
    IN  IF Nullish(data) THEN Thrown(st, TypeError)
        ELSE
        LET userData == Get(data, "user")
            access_token == Get(data, "access_token")
            st1 == IF Truthy(access_token)
                   THEN [st EXCEPT !.storage = access_token, !.token = access_token]
                   ELSE [st EXCEPT !.storage = Null, !.token = Null]
            st2 == [st1 EXCEPT !.user = userData]
        IN  IF Nullish(userData) THEN Thrown(st2, TypeError)
            ELSE IF Get(userData, "role") = Str("admin")
                 THEN Effect(st2, <<AdminRoute>>, Success)
                 ELSE Effect(st2, <<CustomerRoute>>, Success)

\* lines 76-92, from the settled POST on
LoginTry(st, outcome) ==
    IF ~outcome.ok THEN Thrown(st, outcome.val)
    ELSE
    LET response == outcome.val
        data == Get(response, "data")
    IN  IF Nullish(data) THEN Thrown(st, TypeError)
        ELSE
        LET userData == Get(data, "user")
            access_token == Get(data, "access_token")
            st1 == IF Truthy(access_token)
                   THEN [st EXCEPT !.storage = access_token, !.token = access_token]
                   ELSE st
            st2 == [st1 EXCEPT !.user = userData]
        IN  IF Nullish(userData) THEN Thrown(st2, TypeError)
            ELSE IF Get(userData, "role") = Str("admin")
                 THEN Effect(st2, <<AdminRoute>>, Success)
                 ELSE Effect(st2, <<CustomerRoute>>, Success)

\* the two fields read in the other order
LoginErrorMessageSwapped(error) ==
    Or(Or(OptGet(OptGet(Get(error, "response"), "data"), "message"),
          OptGet(OptGet(Get(error, "response"), "data"), "error")),
       Str("Login failed"))

\* line 101
LoginErrorMessage(error) ==
    Or(Or(OptGet(OptGet(Get(error, "response"), "data"), "error"),
          OptGet(OptGet(Get(error, "response"), "data"), "message")),
       Str("Login failed"))

\* the catch block sending the user back to the home route
LoginCatchNavigatesHome(st, error) ==
    Effect([st EXCEPT !.user = Null, !.token = Null, !.storage = Null],
           <<HomeRoute>>, Failure(LoginErrorMessage(error)))

\* the catch block without setUser(null)
LoginCatchKeepsUser(st, error) ==
    Effect([st EXCEPT !.token = Null, !.storage = Null],
           <<>>, Failure(LoginErrorMessage(error)))

\* lines 93-102
LoginCatch(st, error) ==
    Effect([st EXCEPT !.user = Null, !.token = Null, !.storage = Null],
           <<>>, Failure(LoginErrorMessage(error)))

\* a catch that handles request errors only: a TypeError leaves the function
LoginSettledUncaught(st, outcome) ==
    LET t == LoginTry(st, outcome)
    IN  FinallyNotLoading(IF t.thrown /\ t.error # TypeError
                          THEN LoginCatch(t.st, t.error) ELSE t)

\* lines 76-105
LoginSettled(st, outcome) ==
    LET t == LoginTry(st, outcome)
    IN  FinallyNotLoading(IF t.thrown THEN LoginCatch(t.st, t.error) ELSE t)

-----------------------------------------------------------------------------
(* register, lines 108-148 *)

\* role = 'customer' in the parameter list: the default applies to undefined
RegisterRole(role) == IF role = Undefined THEN Str("customer") ELSE role

\* the try block without the role test: every new user goes to the customer dashboard
RegisterTryAlwaysCustomer(st, outcome) ==
    IF ~outcome.ok THEN Thrown(st, outcome.val)
    ELSE
    LET response == outcome.val
        data == Get(response, "data")
    IN  IF Nullish(data) THEN Thrown(st, TypeError)
        ELSE
        LET userData == Get(data, "user")
            access_token == Get(data, "access_token")
            st1 == IF Truthy(access_token)
                   THEN [st EXCEPT !.storage = access_token, !.token = access_token]
                   ELSE st
            st2 == [st1 EXCEPT !.user = userData]
        IN  IF Nullish(userData) THEN Thrown(st2, TypeError)
            ELSE Effect(st2, <<CustomerRoute>>, Success)

\* lines 118-134, from the settled POST on
RegisterTry(st, outcome) ==
    IF ~outcome.ok THEN Thrown(st, outcome.val)
    ELSE
    LET response == outcome.val
        data == Get(response, "data")
    IN  IF Nullish(data) THEN Thrown(st, TypeError)
        ELSE
        LET userData == Get(data, "user")
            access_token == Get(data, "access_token")
            st1 == IF Truthy(access_token)
                   THEN [st EXCEPT !.storage = access_token, !.token = access_token]
                   ELSE st
            st2 == [st1 EXCEPT !.user = userData]
        IN  IF Nullish(userData) THEN Thrown(st2, TypeError)
            ELSE IF Get(userData, "role") = Str("admin")
                 THEN Effect(st2, <<AdminRoute>>, Success)
                 ELSE Effect(st2, <<CustomerRoute>>, Success)

\* line 143
RegisterErrorMessage(error) ==
    Or(Or(OptGet(OptGet(Get(error, "response"), "data"), "error"),
          OptGet(OptGet(Get(error, "response"), "data"), "message")),
       Str("Registration failed"))

\* the catch block without localStorage.removeItem
RegisterCatchKeepsStorage(st, error) ==
    Effect([st EXCEPT !.user = Null, !.token = Null],
           <<>>, Failure(RegisterErrorMessage(error)))

\* lines 135-144
RegisterCatch(st, error) ==
    Effect([st EXCEPT !.user = Null, !.token = Null, !.storage = Null],
           <<>>, Failure(RegisterErrorMessage(error)))

\* lines 118-147
RegisterSettled(st, outcome) ==
    LET t == RegisterTry(st, outcome)
    IN  FinallyNotLoading(IF t.thrown THEN RegisterCatch(t.st, t.error) ELSE t)

-----------------------------------------------------------------------------
(* logout, lines 150-161 *)

\* lines 152-154: the rejection is logged, nothing else
LogoutTryCatch(st, outcome) == Effect(st, <<>>, Undefined)

\* the finally block without setToken(null)
LogoutFinallyKeepsToken(e) ==
    [e EXCEPT !.st.user = Null, !.st.storage = Null,
              !.navs = Append(e.navs, HomeRoute)]

\* lines 155-160
LogoutFinally(e) ==
    [e EXCEPT !.st.user = Null, !.st.token = Null, !.st.storage = Null,
              !.navs = Append(e.navs, HomeRoute)]

\* the clearing moved from finally into try: skipped when the POST rejects
LogoutSettledOnlyOnSuccess(st, outcome) ==
    IF outcome.ok THEN LogoutFinally(LogoutTryCatch(st, outcome))
    ELSE LogoutTryCatch(st, outcome)

LogoutSettled(st, outcome) == LogoutFinally(LogoutTryCatch(st, outcome))

-----------------------------------------------------------------------------
(* The component *)

Slots == 0 .. MaxCalls          \* slot 0 is initializeAuth's, the others the callers'
CallSlots == 1 .. MaxCalls

Idle == [kind |-> "idle", storedToken |-> Undefined]
Waiting(kind, storedToken) == [kind |-> kind, storedToken |-> storedToken]

Emails == {Str("a@b.com")}
Passwords == {Str("pw")}
Names == {Str("Ann")}
RoleArgs == {Undefined, Str("admin")}     \* Undefined: the argument is omitted

\* a step: op is the function, phase "awaiting" when the step ended at the await,
\* "returned" when it ran the function to its end; roleArg is register's role argument
Step(op, phase, outcome, storedToken, sent, e) ==
    [op |-> op, phase |-> phase, outcome |-> outcome, pre |-> Current,
     storedToken |-> storedToken, sent |-> sent, navs |-> e.navs,
     result |-> e.result, threw |-> e.thrown, roleArg |-> Undefined]

NoStep ==
    [op |-> "none", phase |-> "none", outcome |-> Pending,
     pre |-> Session(Null, Null, TRUE, Null),
     storedToken |-> Undefined, sent |-> <<>>, navs |-> <<>>,
     result |-> Undefined, threw |-> FALSE, roleArg |-> Undefined]

\* lines 15-17: the state after the first render, before the effects run
Init ==
    /\ storage \in {Null, T0}
    /\ user = Null
    /\ token = storage
    /\ loading = TRUE
    /\ installed = FALSE
    /\ ops = [s \in Slots |-> Idle]
    /\ last = [NoStep EXCEPT !.pre = Session(Null, storage, TRUE, storage)]
    /\ sinceLogout = [stale |-> {}, cleared |-> FALSE]

Apply(e) ==
    /\ user' = e.st.user
    /\ token' = e.st.token
    /\ loading' = e.st.loading
    /\ storage' = e.st.storage

\* the operations whose response sets the user and the token
Restoring == {"initializeAuth", "login", "register"}

\* logout in slot s has cleared the session: the calls still waiting are stale
AfterLogout(s) ==
    [stale |-> sinceLogout.stale
                 \cup {r \in Slots \ {s} : ops[r].kind \in Restoring},
     cleared |-> TRUE]

\* the call in slot s has handled its response
AfterResponse(s, succeeded) ==
    [stale |-> sinceLogout.stale \ {s},
     cleared |-> sinceLogout.cleared /\ ~(succeeded /\ s \notin sinceLogout.stale)]

FreeSlots == {s \in CallSlots : ops[s].kind = "idle"}
FreeSlot == CHOOSE s \in FreeSlots : \A r \in FreeSlots : s <= r

\* The effects of lines 21-36 and 39-70 run in this order after the first render:
\* the interceptor is registered, then initializeAuth runs to its await or its return.
Mount ==
    /\ ~installed
    /\ installed' = TRUE
    /\ UNCHANGED sinceLogout
    /\ LET storedToken == storage
       IN  IF ~Truthy(storedToken)
           THEN LET e == InitializeAuthNoToken([Current EXCEPT !.loading = TRUE])
                IN  /\ Apply(e)
                    /\ ops' = ops
                    /\ last' = Step("initializeAuth", "returned", Pending, storedToken, <<>>, e)
           ELSE LET e == Effect([Current EXCEPT !.loading = TRUE], <<>>, Undefined)
                    req == Request(Config("get", API \o "/auth/me/", Undefined), TRUE, storage)
                IN  /\ Apply(e)
                    /\ ops' = [ops EXCEPT ![0] = Waiting("initializeAuth", storedToken)]
                    /\ last' = Step("initializeAuth", "awaiting", Pending, storedToken, <<req>>, e)

\* lines 50-66
InitializeAuthDone(outcome) ==
    /\ ops[0].kind = "initializeAuth"
    /\ LET e == InitializeAuthSettled(Current, outcome, ops[0].storedToken)
       IN  /\ Apply(e)
           /\ last' = Step("initializeAuth", "returned", outcome, ops[0].storedToken, <<>>, e)
           /\ sinceLogout' = AfterResponse(0, e.st.user # Null)
    /\ ops' = [ops EXCEPT ![0] = Idle]
    /\ UNCHANGED installed

\* lines 73-75
Login(email, password) ==
    /\ installed
    /\ FreeSlots # {}
    /\ LET e == Effect([Current EXCEPT !.loading = TRUE], <<>>, Undefined)
           body == Obj(("email" :> email) @@ ("password" :> password))
           req == Request(Config("post", API \o "/auth/login/", body), installed, storage)
       IN  /\ Apply(e)
           /\ last' = Step("login", "awaiting", Pending, Undefined, <<req>>, e)
    /\ ops' = [ops EXCEPT ![FreeSlot] = Waiting("login", Undefined)]
    /\ UNCHANGED <<installed, sinceLogout>>

\* a rejected POST sent again instead of handled
LoginDoneRetries(s, outcome) ==
    /\ ops[s].kind = "login"
    /\ IF ~outcome.ok
       THEN LET e == Effect(Current, <<>>, Undefined)
                body == Obj(("email" :> Str("a@b.com")) @@ ("password" :> Str("pw")))
                req == Request(Config("post", API \o "/auth/login/", body), installed, storage)
            IN  /\ Apply(e)
                /\ last' = Step("login", "awaiting", outcome, Undefined, <<req>>, e)
                /\ ops' = ops
                /\ UNCHANGED sinceLogout
       ELSE LET e == LoginSettled(Current, outcome)
            IN  /\ Apply(e)
                /\ last' = Step("login", "returned", outcome, Undefined, <<>>, e)
                /\ ops' = [ops EXCEPT ![s] = Idle]
                /\ sinceLogout' = AfterResponse(s, e.result = Success)
    /\ UNCHANGED installed

\* lines 76-105
LoginDone(s, outcome) ==
    /\ ops[s].kind = "login"
    /\ LET e == LoginSettled(Current, outcome)
       IN  /\ Apply(e)
           /\ last' = Step("login", "returned", outcome, Undefined, <<>>, e)
           /\ sinceLogout' = AfterResponse(s, e.result = Success)
    /\ ops' = [ops EXCEPT ![s] = Idle]
    /\ UNCHANGED installed

\* lines 108-116
Register(email, password, name, roleArg) ==
    /\ installed
    /\ FreeSlots # {}
    /\ LET e == Effect([Current EXCEPT !.loading = TRUE], <<>>, Undefined)
           body == Obj(("email" :> email) @@ ("password" :> password)
                       @@ ("name" :> name) @@ ("role" :> RegisterRole(roleArg)))
           req == Request(Config("post", API \o "/auth/register/", body), installed, storage)
       IN  /\ Apply(e)
           /\ last' = [Step("register", "awaiting", Pending, Undefined, <<req>>, e)
                       EXCEPT !.roleArg = roleArg]
    /\ ops' = [ops EXCEPT ![FreeSlot] = Waiting("register", Undefined)]
    /\ UNCHANGED <<installed, sinceLogout>>

\* lines 118-147
RegisterDone(s, outcome) ==
    /\ ops[s].kind = "register"
    /\ LET e == RegisterSettled(Current, outcome)
       IN  /\ Apply(e)
           /\ last' = Step("register", "returned", outcome, Undefined, <<>>, e)
           /\ sinceLogout' = AfterResponse(s, e.result = Success)
    /\ ops' = [ops EXCEPT ![s] = Idle]
    /\ UNCHANGED installed

\* lines 150-152
Logout ==
    /\ installed
    /\ FreeSlots # {}
    /\ LET e == Effect(Current, <<>>, Undefined)
           req == Request(Config("post", API \o "/auth/logout/", Undefined), installed, storage)
       IN  /\ Apply(e)
           /\ last' = Step("logout", "awaiting", Pending, Undefined, <<req>>, e)
    /\ ops' = [ops EXCEPT ![FreeSlot] = Waiting("logout", Undefined)]
    /\ UNCHANGED <<installed, sinceLogout>>

\* lines 153-160
LogoutDone(s, outcome) ==
    /\ ops[s].kind = "logout"
    /\ LET e == LogoutSettled(Current, outcome)
       IN  /\ Apply(e)
           /\ last' = Step("logout", "returned", outcome, Undefined, <<>>, e)
           /\ sinceLogout' = AfterLogout(s)
    /\ ops' = [ops EXCEPT ![s] = Idle]
    /\ UNCHANGED installed

Next ==
    \/ Mount
    \/ \E o \in MeOutcomes : InitializeAuthDone(o)
    \/ \E em \in Emails, pw \in Passwords : Login(em, pw)
    \/ \E s \in CallSlots, o \in SubmitOutcomes : LoginDone(s, o)
    \/ \E em \in Emails, pw \in Passwords, n \in Names, r \in RoleArgs : Register(em, pw, n, r)
    \/ \E s \in CallSlots, o \in SubmitOutcomes : RegisterDone(s, o)
    \/ Logout
    \/ \E s \in CallSlots, o \in LogoutOutcomes : LogoutDone(s, o)

Spec == Init /\ [][Next]_vars

\* For the progress properties, one outcome for each way through a handler:
\* the try block runs to its end, the try block throws on the body, the request
\* is rejected
MeOutcomesByKind == {Resolved(UAdmin), Resolved(Null), Rejected(NetworkError)}
SubmitOutcomesByKind ==
    {Resolved(Obj(("user" :> UAdmin) @@ ("access_token" :> T1))),
     Resolved(Obj(<<>>)), Rejected(NetworkError)}
LogoutOutcomesByKind == {Resolved(Obj(<<>>)), Rejected(NetworkError)}

\* the request of the call in slot s settles and the call runs to its end
Settle(s) ==
    \/ \E o \in SubmitOutcomesByKind : LoginDone(s, o)
    \/ \E o \in SubmitOutcomesByKind : RegisterDone(s, o)
    \/ \E o \in LogoutOutcomesByKind : LogoutDone(s, o)

NextByKind ==
    \/ Mount
    \/ \E o \in MeOutcomesByKind : InitializeAuthDone(o)
    \/ \E em \in Emails, pw \in Passwords : Login(em, pw)
    \/ \E s \in CallSlots, o \in SubmitOutcomesByKind : LoginDone(s, o)
    \/ \E em \in Emails, pw \in Passwords, n \in Names : Register(em, pw, n, Undefined)
    \/ \E s \in CallSlots, o \in SubmitOutcomesByKind : RegisterDone(s, o)
    \/ Logout
    \/ \E s \in CallSlots, o \in LogoutOutcomesByKind : LogoutDone(s, o)

\* the call in slot s is suspended at its await
Waits(s) == ops[s].kind \in {"login", "register", "logout"}

\* Settle(s) can be taken exactly when the call in slot s waits
SettleEnabledWhenWaiting ==
    \A s \in CallSlots : (ENABLED <<Settle(s)>>_vars) <=> Waits(s)

\* React runs the effects after the first render, and every request settles, so
\* the segment after each await is eventually run.  The condition on the call
\* slots is WF_vars(Settle(s)) with ENABLED <<Settle(s)>>_vars written as Waits(s).
Fairness ==
    /\ WF_vars(Mount)
    /\ WF_vars(\E o \in MeOutcomesByKind : InitializeAuthDone(o))
    /\ \A s \in CallSlots : ([]<>(~Waits(s)) \/ []<><<Settle(s)>>_vars)

FairSpec == Init /\ [][NextByKind]_vars /\ Fairness

-----------------------------------------------------------------------------
(* Reading the last step *)

Returned(op) == last.op = op /\ last.phase = "returned"
Awaiting(op) == last.op = op /\ last.phase = "awaiting"
RequestFailed == last.outcome # Pending /\ ~last.outcome.ok
RequestSucceeded == last.outcome # Pending /\ last.outcome.ok
\* the body of the response the last step handled
LastData == Get(last.outcome.val, "data")
\* the body of the error response the last step handled, if the error carries one
LastPayload == OptGet(Get(last.outcome.val, "response"), "data")
SessionCleared == user = Null /\ token = Null /\ storage = Null

FailedInitialize ==
    /\ Returned("initializeAuth")
    /\ \/ RequestFailed
       \/ RequestSucceeded /\ Nullish(LastData)
FailedSubmit(op) ==
    /\ Returned(op)
    /\ \/ RequestFailed
       \/ last.result = Failure(last.result.error)

-----------------------------------------------------------------------------
(* C1 *)

\* C1: a step that clears the in-memory token also clears the user, and a failed
\* initialize, login or register that clears the user also clears the in-memory
\* token and the persisted token.
C1_ClearedTogether ==
    /\ (last.pre.token # Null /\ token = Null) => user = Null
    /\ ((FailedInitialize \/ FailedSubmit("login") \/ FailedSubmit("register"))
        /\ user = Null)
       => (token = Null /\ storage = Null)

C1_Witness ==
    /\ FailedSubmit("login")
    /\ last.pre.user # Null /\ last.pre.token # Null /\ last.pre.storage # Null
    /\ SessionCleared

-----------------------------------------------------------------------------
(* C2 *)

\* C2: when logout returns, user, token and the persisted token are null and
\* exactly one navigation, to '/', was issued, whether the POST resolved or
\* rejected and whatever the session was.
C2_LogoutClears ==
    Returned("logout") =>
        /\ SessionCleared
        /\ last.navs = <<HomeRoute>>
        /\ ~last.threw

C2_Witness ==
    /\ Returned("logout")
    /\ RequestFailed
    /\ last.pre.user # Null /\ last.pre.storage # Null
    /\ SessionCleared
    /\ last.navs = <<HomeRoute>>

-----------------------------------------------------------------------------
(* C3 *)

LoginGotUserAndToken ==
    /\ Returned("login")
    /\ RequestSucceeded
    /\ ~Nullish(LastData)
    /\ ~Nullish(Get(LastData, "user"))
    /\ Truthy(Get(LastData, "access_token"))

\* C3: when login's request resolves with a user and an access_token, the
\* access_token is the persisted and the in-memory token, user is the returned
\* user, the result is {success: true}, and one navigation is issued: to the
\* admin dashboard for role 'admin', to the customer dashboard otherwise.
C3_LoginSuccess ==
    LoginGotUserAndToken =>
        /\ storage = Get(LastData, "access_token")
        /\ token = Get(LastData, "access_token")
        /\ user = Get(LastData, "user")
        /\ last.result = Success
        /\ ~last.threw
        /\ last.navs = IF Get(Get(LastData, "user"), "role") = Str("admin")
                       THEN <<AdminRoute>> ELSE <<CustomerRoute>>

C3_Witness ==
    /\ LoginGotUserAndToken
    /\ last.pre.storage = T0
    /\ user = UAdmin /\ storage = T1 /\ token = T1
    /\ last.navs = <<AdminRoute>>

-----------------------------------------------------------------------------
(* C4 *)

\* C4: when the request of login or register fails, user, token and the
\* persisted token are null afterwards, whatever they were before.
C4_FailedSubmitClears ==
    ((Returned("login") \/ Returned("register")) /\ RequestFailed) => SessionCleared

C4_Witness ==
    /\ Returned("register")
    /\ RequestFailed
    /\ last.pre.user # Null /\ last.pre.token # Null /\ last.pre.storage # Null
    /\ SessionCleared

-----------------------------------------------------------------------------
(* C5 *)

\* a field of the error payload that carries a message
HasMessage(p, k) ==
    /\ p.t = "object"
    /\ k \in DOMAIN p.f
    /\ p.f[k].t = "string" /\ p.f[k].v # ""

ExpectedMessage(default) ==
    LET p == IF RequestFailed THEN LastPayload ELSE Undefined
    IN  CASE HasMessage(p, "error") -> p.f["error"]
          [] ~HasMessage(p, "error") /\ HasMessage(p, "message") -> p.f["message"]
          [] OTHER -> Str(default)

\* C5: a failed login returns {success: false, error: m}, m being the error
\* payload's 'error' field if it has one, otherwise its 'message' field,
\* otherwise 'Login failed' ('Registration failed' for register), also when
\* the failure carries no payload.
C5_FailureMessage ==
    /\ FailedSubmit("login") => last.result = Failure(ExpectedMessage("Login failed"))
    /\ FailedSubmit("register") =>
           last.result = Failure(ExpectedMessage("Registration failed"))

C5_Witness ==
    /\ FailedSubmit("login")
    /\ RequestFailed
    /\ HasMessage(LastPayload, "error") /\ HasMessage(LastPayload, "message")
    /\ last.result = Failure(Str("bad creds"))

-----------------------------------------------------------------------------
(* C6 *)

\* C6: login and register never throw: whatever the request settles with, the
\* call returns an object tagged success: true or success: false.
C6_NeverThrows ==
    (Returned("login") \/ Returned("register")) =>
        /\ ~last.threw
        /\ last.result \in {Success, Failure(last.result.error)}

C6_Witness ==
    /\ Returned("login")
    /\ RequestSucceeded
    /\ ~Nullish(LastData) /\ Nullish(Get(LastData, "user"))
    /\ ~last.threw
    /\ last.result = Failure(Str("Login failed"))

-----------------------------------------------------------------------------
(* C7 *)

\* C7: when nothing is persisted as initializeAuth runs, it sends no request
\* and returns with user = null, loading = false and both tokens absent.
C7_InitNoToken ==
    (last.op = "initializeAuth" /\ last.pre.storage = Null /\ last.outcome = Pending) =>
        /\ last.phase = "returned"
        /\ last.sent = <<>>
        /\ user = Null
        /\ ~loading
        /\ token = Null /\ storage = Null
        /\ ops[0] = Idle

C7_Witness ==
    /\ Returned("initializeAuth")
    /\ last.pre.storage = Null
    /\ last.sent = <<>>
    /\ user = Null /\ ~loading

-----------------------------------------------------------------------------
(* C8 *)

\* the user record of a current-user response: its user field, or the body itself
FetchedUser(d) == IF d.t = "object" /\ "user" \in DOMAIN d.f THEN d.f["user"] ELSE d

InitGotUser == Returned("initializeAuth") /\ RequestSucceeded /\ ~Nullish(LastData)

-----------------------------------------------------------------------------
(* C9 *)

\* C9: when a token is persisted and the current-user request fails,
\* initializeAuth returns with user, token and the persisted token null and
\* loading = false, and the failure does not leave the function.
C9_InitFailureClears ==
    (Returned("initializeAuth") /\ RequestFailed) =>
        /\ SessionCleared
        /\ ~loading
        /\ ~last.threw

C9_Witness ==
    /\ Returned("initializeAuth")
    /\ RequestFailed
    /\ last.pre.storage # Null /\ last.pre.token # Null
    /\ SessionCleared /\ ~loading

-----------------------------------------------------------------------------
(* C10 *)

\* C10: every request sent carries "Bearer <token>" for the token in storage at
\* the moment it is sent, and no Authorization header when nothing is persisted.
C10_BearerFromStorage ==
    \A i \in DOMAIN last.sent :
        last.sent[i].Authorization =
            IF last.pre.storage # Null
            THEN Str("Bearer " \o last.pre.storage.v)
            ELSE Undefined

C10_Witness ==
    /\ Awaiting("logout")
    /\ storage = T1
    /\ Len(last.sent) = 1
    /\ last.sent[1].url = API \o "/auth/logout/"
    /\ last.sent[1].Authorization = Str("Bearer t1")

-----------------------------------------------------------------------------
(* C11 *)

\* the session, navigations and success flag a step left, next to those of an effect
SameContract(e) ==
    /\ user = e.st.user
    /\ token = e.st.token
    /\ storage = e.st.storage
    /\ loading = e.st.loading
    /\ last.navs = e.navs
    /\ last.result.success = e.result.success

\* the messages agree unless both are the function's own default
SameMessage(e, mine, other) ==
    \/ last.result.error = e.result.error
    \/ last.result.error = Str(mine) /\ e.result.error = Str(other)

\* C11: from the same session and for the same outcome of the request, register
\* leaves what login would leave (user, token, persisted token, loading,
\* navigation, success flag) and the other way round; they differ in the
\* endpoint, the body and the default message; an omitted role is sent as
\* 'customer'.
C11_RegisterLikeLogin ==
    /\ Returned("register") =>
           /\ SameContract(LoginSettled(last.pre, last.outcome))
           /\ SameMessage(LoginSettled(last.pre, last.outcome),
                          "Registration failed", "Login failed")
    /\ Returned("login") =>
           /\ SameContract(RegisterSettled(last.pre, last.outcome))
           /\ SameMessage(RegisterSettled(last.pre, last.outcome),
                          "Login failed", "Registration failed")
    /\ Awaiting("register") =>
           /\ loading /\ user = last.pre.user /\ storage = last.pre.storage
           /\ last.sent[1].url = API \o "/auth/register/"
           /\ Get(last.sent[1].data, "role") =
                  IF last.roleArg = Undefined THEN Str("customer") ELSE last.roleArg
    /\ Awaiting("login") =>
           /\ loading /\ user = last.pre.user /\ storage = last.pre.storage
           /\ last.sent[1].url = API \o "/auth/login/"

C11_Witness ==
    /\ Returned("register")
    /\ RequestSucceeded
    /\ last.pre.storage = T0 /\ last.pre.user = UCustomer
    /\ user = UAdmin /\ storage = T1
    /\ last.navs = <<AdminRoute>>
    /\ last.result = Success

-----------------------------------------------------------------------------
(* C12 *)

\* C12: the segment of login, register, logout and initializeAuth that ends at
\* the await sends exactly one request, to the operation's own endpoint, and is
\* not a reaction to a settled request; the segment that handles the settled
\* request, failed or not, sends none; initializeAuth sends none when nothing is
\* persisted.
C12_OneRequest ==
    /\ last.phase = "awaiting" =>
           /\ Len(last.sent) = 1
           /\ last.outcome = Pending
           /\ last.sent[1].url =
                  CASE last.op = "initializeAuth" -> API \o "/auth/me/"
                    [] last.op = "login" -> API \o "/auth/login/"
                    [] last.op = "register" -> API \o "/auth/register/"
                    [] last.op = "logout" -> API \o "/auth/logout/"
    /\ last.phase = "returned" => last.sent = <<>>
    /\ (last.op = "initializeAuth" /\ last.pre.storage = Null) => last.sent = <<>>

C12_Witness ==
    /\ Returned("login")
    /\ RequestFailed
    /\ last.sent = <<>>
    /\ \A s \in Slots : ops[s].kind # "login"

-----------------------------------------------------------------------------
(* C13 *)

\* C13: from the moment a logout has cleared the session until a login or
\* register started after that logout succeeds, user is null and nothing is
\* persisted; the response of a call that was waiting when the logout cleared
\* the session restores neither.
C13_ClearedUntilFreshLogin ==
    sinceLogout.cleared => (user = Null /\ storage = Null)

-----------------------------------------------------------------------------
(* C14 *)

InFlight == {s \in Slots : ops[s].kind \in Restoring}

\* C14: loading is true whenever a request of initializeAuth, login or register
\* has not settled yet, however the operations overlap.
C14_LoadingWhileInFlight ==
    InFlight # {} => loading

-----------------------------------------------------------------------------
(* C15 *)

\* C15: between the synchronous segments of the operations, in any order they
\* run, the in-memory token is the persisted token: both null or the same string.
C15_TokenIsPersistedToken ==
    token = storage

C15_Witness ==
    /\ Returned("login")
    /\ last.pre.token = T0 /\ last.pre.storage = T0
    /\ token = T1 /\ storage = T1
    /\ InFlight # {}

-----------------------------------------------------------------------------
(* C17 *)

SubmitGotUserOnly ==
    /\ Returned("login") \/ Returned("register")
    /\ RequestSucceeded
    /\ ~Nullish(LastData)
    /\ ~Nullish(Get(LastData, "user"))
    /\ Get(LastData, "access_token") = Undefined

\* C17: a login or register whose response carries a user and no access_token
\* sets user to that user and leaves the in-memory and the persisted token as
\* they were, so a token of an earlier session stays stored under the new user.
C17_TokenKeptWithoutAccessToken ==
    SubmitGotUserOnly =>
        /\ user = Get(LastData, "user")
        /\ token = last.pre.token
        /\ storage = last.pre.storage
        /\ last.result = Success

C17_Witness ==
    /\ SubmitGotUserOnly
    /\ Returned("login")
    /\ last.pre.user = UCustomer /\ last.pre.storage = T0
    /\ user = UAdmin /\ storage = T0 /\ token = T0

-----------------------------------------------------------------------------
(* C18 *)

\* C18: a step navigates only as a login or register that returns
\* {success: true}, once, to a dashboard route, with the response's token stored
\* and its user set, or as the end of logout, once, to '/'; a failed login or
\* register and initializeAuth do not navigate.
C18_NavigationCases ==
    /\ last.navs # <<>> =>
           \/ /\ Returned("login") \/ Returned("register")
              /\ last.result = Success
              /\ last.navs \in {<<AdminRoute>>, <<CustomerRoute>>}
              /\ user = Get(LastData, "user")
              /\ Truthy(Get(LastData, "access_token")) =>
                     (storage = Get(LastData, "access_token")
                      /\ token = Get(LastData, "access_token"))
           \/ /\ Returned("logout")
              /\ last.navs = <<HomeRoute>>
    /\ (FailedSubmit("login") \/ FailedSubmit("register")) => last.navs = <<>>
    /\ last.op = "initializeAuth" => last.navs = <<>>
    /\ last.phase = "awaiting" => last.navs = <<>>

C18_Witness ==
    /\ Returned("register")
    /\ last.result = Success
    /\ last.navs = <<CustomerRoute>>
    /\ user = UCustomer /\ storage = T1

-----------------------------------------------------------------------------
(* C16 *)

\* C16: given that every request settles, every initializeAuth, login and
\* register that has started returns; once the effects have run, loading is
\* false whenever none of them is waiting; and loading does not stay true for ever.
C16_CompletesAndStopsLoading ==
    /\ \A s \in Slots : (ops[s].kind \in Restoring) ~> (ops[s].kind \notin Restoring)
    /\ [](installed /\ InFlight = {} => ~loading)
    /\ loading ~> ~loading

C16_Witness ==
    /\ Returned("register")
    /\ last.pre.loading
    /\ InFlight = {}
    /\ ~loading
    /\ sinceLogout.cleared

====
